---- MODULE Spec2Model ----
(***************************************************************************)
(* Model of the slides2text backend (backend/app/main.py, utils.py,       *)
(* config.py): the job table processing_status, the /upload handler       *)
(* upload_file, the /status handler get_status and the coroutine          *)
(* process_file, together with the wrappers of the external tools they    *)
(* call.                                                                   *)
(*                                                                         *)
(* All three are coroutines of one asyncio event loop.  upload_file and   *)
(* get_status contain no await, so each runs to its end without any other *)
(* coroutine running in between; process_file yields only at its          *)
(* "await asyncio.sleep" (main.py:281).  A coroutine that is between two   *)
(* yield points is the only one that can take a step (see Busy).          *)
(*                                                                         *)
(* Nothing in the repository calls process_file.  Spec is the program as  *)
(* it is wired: uploads and status requests.  SpecBg adds process_file,   *)
(* entered as a background task for a job that has not been started.      *)
(***************************************************************************)
EXTENDS Integers, Sequences, FiniteSets, TLC

\* ------------------------------------------------------------------ bounds
MaxTime == 2        \* the clock runs over 1..MaxTime seconds
MaxSlides == 2      \* pages a rasterized document can have
NumTasks == 1       \* process_file coroutines that can be alive at once

Tasks == 1..NumTasks
JobIds == 1..MaxTime

\* --------------------------------------------------------- input alphabets
\* Python's None, as passed for an absent form field (main.py:66-67).
None == "<None>"
Keys == {None, "", "sk"}
Providers == {"openai", "gemini", "other"}
\* File names, as sequences of characters.
FileNames ==
  { <<"d", ".", "p", "p", "t", "x">>, <<"d", ".", "p", "p", "t">>,
    <<"d", ".", "p", "d", "f">> }
Texts == {"", "txt"}             \* what OCR can return for a slide
Summaries == {"", "sum"}         \* what a backend can return after .strip()
Stderrs == {""}                  \* what soffice writes to stderr
WorkDirs == {"work"}
UploadTmp == "tmp"               \* the TemporaryDirectory of the running upload

\* Python truthiness of an Optional[str] ("not key" is its negation).
Truthy(key) == key # None /\ key # ""

VARIABLES
  now,                \* time.time(), in whole seconds
  processing_status,  \* main.py:53, job id -> entry
  up,                 \* the upload_file request being served
  task,               \* the process_file coroutines
  dirs,               \* temporary directories that exist on disk
  resp,               \* the HTTP answer the last step gave, if it gave one
  ended,              \* the process_file coroutine the last step ended, if any
  call,               \* the summarization backend call the last step made, if any
  settings            \* config.py:24

vars == <<now, processing_status, up, task, dirs, resp, ended, call, settings>>

NoResp == [by |-> "none", code |-> 0]
NoEnd == [job_id |-> 0]
NoCall == [backend |-> "none"]

\* ---------------------------------------------------------------- utils.py
Ok(v) == [ok |-> TRUE, val |-> v, err |-> ""]
Raise(msg) == [ok |-> FALSE, val |-> "", err |-> msg]

ConvEnvs ==
  [which_rc : {0, 1}, soffice_rc : {0, 1}, stderr : Stderrs, pdf_exists : BOOLEAN]

\* utils.py:16-52.  env is what the subprocesses and the file system answer.
pptx_to_pdf(env) ==
  IF env.which_rc # 0
    THEN Raise("LibreOffice is not installed. Please install it using 'apt-get install libreoffice'")
  ELSE IF env.soffice_rc # 0
    THEN Raise("LibreOffice conversion failed: " \o env.stderr)
  ELSE IF ~env.pdf_exists
    THEN Raise("PDF file not created at pdf/d.pdf")
  ELSE Ok("pdf/d.pdf")

RasterEnvs == [convert_ok : BOOLEAN, npages : 0..MaxSlides]

\* utils.py:54-82.  The value is the number of image paths returned.
pdf_to_images(env) ==
  IF ~env.convert_ok
    THEN [ok |-> FALSE, val |-> 0, err |-> "Unable to get page count."]
  ELSE IF env.npages = 0
    THEN [ok |-> FALSE, val |-> 0, err |-> "No images were generated from the PDF"]
  ELSE [ok |-> TRUE, val |-> env.npages, err |-> ""]

\* extract_text is imported by main.py:14 but utils.py does not define it;
\* its contract is the specification's: the text of the image, possibly
\* empty, or an error.
extract_text == {Ok(t) : t \in Texts} \cup {Raise("cannot identify image file")}

\* utils.py:97-135.  The first argument is opened as a file (line 104); the
\* empty path never opens.  Every other outcome, an error of open() or of
\* the remote API or a summary, is the environment's.
summarize_openai(image_path, api_key) ==
  IF image_path = ""
    THEN {Raise("[Errno 2] No such file or directory: ''")}
    ELSE {Raise("rate limit exceeded")} \cup {Ok(s) : s \in Summaries}

\* utils.py:137-183.
summarize_gemini(image_path, api_key, model) ==
  IF ~Truthy(api_key)
    THEN {Raise("GEMINI_API_KEY not set")}
  ELSE IF image_path = ""
    THEN {Raise("[Errno 2] No such file or directory: ''")}
    ELSE {Raise("rate limit exceeded")} \cup {Ok(s) : s \in Summaries}

\* --------------------------------------------------------------- config.py
\* config.py:4-24.  Each key is None unless the environment sets it; the
\* settings are read once, when the module is loaded.  Only the Gemini key
\* decides anything in utils.py (line 140), so only it is varied.
Settings ==
  [OPENAI_API_KEY : {"sk"}, GEMINI_API_KEY : {None, "sk"},
   GEMINI_MODEL : {"gemini-2.5-flash-preview-04-17"}]

\* ----------------------------------------------------------------- main.py
\* A coroutine is between two yield points: no other coroutine runs.
Busy ==
  \/ up.pc # "idle"
  \/ \E t \in Tasks : task[t].pc \notin {"idle", "sleep"}

\* dict assignment d[k] = v
Put(d, k, v) == [x \in DOMAIN d \cup {k} |-> IF x = k THEN v ELSE d[x]]

\* str.endswith(suffix), on sequences of characters
EndsWith(s, suffix) ==
  /\ Len(s) >= Len(suffix)
  /\ SubSeq(s, Len(s) - Len(suffix) + 1, Len(s)) = suffix

\* main.py:76
valid_extension(filename) ==
  \/ EndsWith(filename, <<".", "p", "p", "t">>)
  \/ EndsWith(filename, <<".", "p", "p", "t", "x">>)

\* key_error with the Gemini branch testing the OpenAI key
key_error_wrong_key(provider, openai_api_key, gemini_api_key) ==
  IF provider = "openai" /\ ~Truthy(openai_api_key)
    THEN "OpenAI API key is required for OpenAI provider"
  ELSE IF provider = "gemini" /\ ~Truthy(openai_api_key)
    THEN "Gemini API key is required for Gemini provider"
  ELSE ""

\* main.py:82-89: the detail of the 400 answer, or "" when the keys pass
key_error(provider, openai_api_key, gemini_api_key) ==
  IF provider = "openai" /\ ~Truthy(openai_api_key)
    THEN "OpenAI API key is required for OpenAI provider"
  ELSE IF provider = "gemini" /\ ~Truthy(gemini_api_key)
    THEN "Gemini API key is required for Gemini provider"
  ELSE ""

\* main.py:154-170: past validation the handler reads, of the request, the
\* provider and the key of the branch that line 154 takes.
branch_key(provider, openai_api_key, gemini_api_key) ==
  IF provider = "gemini" THEN gemini_api_key ELSE openai_api_key

\* main.py:93-98
new_job ==
  [status |-> "uploading", progress |-> 0,
   message |-> "File uploaded, starting processing...", results |-> <<>>]

\* HTTPException(status_code, detail) leaving upload_file (main.py:207-212)
Answer(code, detail, job_id) ==
  [by |-> "upload_file", code |-> code, detail |-> detail, job_id |-> job_id]

Idle == [pc |-> "idle"]

\* config.py:6-11: with nothing set in the environment, both keys are None.
Init ==
  /\ now = 1
  /\ processing_status = << >>
  /\ up = Idle
  /\ task = [t \in Tasks |-> Idle]
  /\ dirs = {}
  /\ resp = NoResp
  /\ ended = NoEnd
  /\ call = NoCall
  /\ settings = [OPENAI_API_KEY |-> None, GEMINI_API_KEY |-> None,
                 GEMINI_MODEL |-> "gemini-2.5-flash-preview-04-17"]

\* The clock.  time.time() is read at one place, main.py:92, so it is enough
\* to let it advance between the coroutines' steps.
Tick ==
  /\ ~Busy
  /\ now < MaxTime
  /\ now' = now + 1
  /\ resp' = NoResp /\ ended' = NoEnd /\ call' = NoCall
  /\ UNCHANGED <<processing_status, up, task, dirs, settings>>

\* main.py:60-68: a POST /upload arrives and the handler is entered with
\* the fields of the form.
upload_request(filename, provider, openai_api_key, gemini_api_key) ==
  /\ ~Busy
  /\ up' = [pc |-> "validate",
            request |-> [filename |-> filename, provider |-> provider,
                         openai_api_key |-> openai_api_key,
                         gemini_api_key |-> gemini_api_key]]
  /\ resp' = NoResp /\ ended' = NoEnd /\ call' = NoCall
  /\ UNCHANGED <<now, processing_status, task, dirs, settings>>

\* main.py:69-104: the request is validated, its job entry and its
\* temporary directory are created.  mkdtemp_ok is whether the directory
\* could be made; if not, line 209 answers 500.
upload_file(mkdtemp_ok) ==
  LET filename == up.request.filename
      provider == up.request.provider
      openai_api_key == up.request.openai_api_key
      gemini_api_key == up.request.gemini_api_key
  IN
  /\ up.pc = "validate"
  /\ ended' = NoEnd /\ call' = NoCall
  /\ UNCHANGED <<now, task, settings>>
  /\ IF ~valid_extension(filename)
       THEN /\ resp' = Answer(400, "Invalid file type", 0)
            /\ up' = Idle
            /\ UNCHANGED <<processing_status, dirs>>
     ELSE IF key_error(provider, openai_api_key, gemini_api_key) # ""
       THEN /\ resp' = Answer(400, key_error(provider, openai_api_key, gemini_api_key), 0)
            /\ up' = Idle
            /\ UNCHANGED <<processing_status, dirs>>
     ELSE /\ processing_status' = Put(processing_status, now, new_job)
          /\ IF mkdtemp_ok
               THEN /\ up' = [pc |-> "save", job_id |-> now,
                              provider |-> provider,
                              api_key |-> branch_key(provider, openai_api_key,
                                                     gemini_api_key)]
                    /\ dirs' = dirs \cup {UploadTmp}
                    /\ resp' = NoResp
               ELSE /\ resp' = Answer(500, "Unexpected error: [Errno 28] No space left on device", now)
                    /\ up' = Idle
                    /\ UNCHANGED dirs

\* with tempfile.TemporaryDirectory() (main.py:102) removes the directory
\* on every way out of the block.
LeaveTmp == dirs' = dirs \ {UploadTmp}

\* main.py:106-115.  save_ok is whether the copy to disk succeeded.
upload_save(save_ok) ==
  /\ up.pc = "save"
  /\ ended' = NoEnd /\ call' = NoCall
  /\ UNCHANGED <<now, processing_status, task, settings>>
  /\ IF save_ok
       THEN /\ up' = [up EXCEPT !.pc = "convert"]
            /\ resp' = NoResp
            /\ UNCHANGED dirs
       ELSE /\ resp' = Answer(500, "Failed to save uploaded file: [Errno 28] No space left on device",
                              up.job_id)
            /\ up' = Idle
            /\ LeaveTmp

\* main.py:117-126
upload_convert(env) ==
  /\ up.pc = "convert"
  /\ ended' = NoEnd /\ call' = NoCall
  /\ UNCHANGED <<now, processing_status, task, settings>>
  /\ LET r == pptx_to_pdf(env) IN
     IF r.ok
       THEN /\ up' = [up EXCEPT !.pc = "rasterize"]
            /\ resp' = NoResp
            /\ UNCHANGED dirs
       ELSE /\ resp' = Answer(500, "Failed to convert PPTX to PDF: " \o r.err, up.job_id)
            /\ up' = Idle
            /\ LeaveTmp

\* main.py:128-142
upload_rasterize(env) ==
  /\ up.pc = "rasterize"
  /\ ended' = NoEnd /\ call' = NoCall
  /\ UNCHANGED <<now, processing_status, task, settings>>
  /\ LET r == pdf_to_images(env) IN
     IF r.ok
       THEN /\ up' = [pc |-> "slide", job_id |-> up.job_id, provider |-> up.provider,
                      api_key |-> up.api_key,
                      results |-> <<>>, total_slides |-> r.val, i |-> 1,
                      sums |-> <<>>]
            /\ resp' = NoResp
            /\ UNCHANGED dirs
       ELSE /\ resp' = Answer(500, "Failed to convert PDF to images: " \o r.err, up.job_id)
            /\ up' = Idle
            /\ LeaveTmp

\* main.py:144, the end of the for loop
UpNextSlide(u) ==
  IF u.i < u.total_slides
    THEN [u EXCEPT !.i = u.i + 1]
    ELSE [u EXCEPT !.pc = "finish"]

\* main.py:184-191
slide_error_entry(i, e) ==
  [slide |-> i, text |-> "[Error processing slide]",
   summary |-> "[Error: Failed to process slide " \o ToString(i) \o ": " \o e \o "]"]

\* main.py:163-166 and 172-175
summary_error(backend, i, e) ==
  "[Error: " \o backend \o " summarization failed for slide " \o ToString(i)
     \o ": " \o e \o "]"

\* slide_entry with "and" for the "or" of line 180
slide_entry_and(i, text, summary) ==
  [slide |-> i, text |-> text,
   summary |-> IF summary # "" THEN "[No summary available]" ELSE summary]

\* main.py:177-181
slide_entry(i, text, summary) ==
  [slide |-> i, text |-> text,
   summary |-> IF summary # "" THEN summary ELSE "[No summary available]"]

\* main.py:144-191, one turn of the loop.  ocr is what extract_text did for
\* the slide; if it returned, gemini says which branch of line 154 is taken
\* and r is what the backend did.
upload_slide(ocr, gemini, r) ==
  /\ up.pc = "slide"
  /\ resp' = NoResp /\ ended' = NoEnd
  /\ UNCHANGED <<now, processing_status, task, dirs, settings>>
  /\ IF ocr.ok
       THEN /\ gemini = (up.provider = "gemini")
            /\ r \in IF gemini
                       THEN summarize_gemini(ocr.val, up.api_key, settings.GEMINI_MODEL)
                       ELSE summarize_openai(ocr.val, up.api_key)
            /\ call' = [backend |-> IF gemini THEN "gemini" ELSE "openai",
                        by |-> "upload_file", job_id |-> up.job_id,
                        slide |-> up.i, text |-> ocr.val,
                        api_key |-> up.api_key, result |-> r]
            /\ LET summary ==
                     IF r.ok THEN r.val
                     ELSE summary_error(IF gemini THEN "Gemini" ELSE "OpenAI", up.i, r.err)
               IN up' = UpNextSlide([up EXCEPT
                          !.results = Append(up.results, slide_entry(up.i, ocr.val, summary)),
                          !.sums = Append(up.sums, [called |-> TRUE, r |-> r])])
       ELSE /\ gemini = FALSE /\ r = Raise("")
            /\ call' = NoCall
            /\ up' = UpNextSlide([up EXCEPT
                       !.results = Append(up.results, slide_error_entry(up.i, ocr.err)),
                       !.sums = Append(up.sums, [called |-> FALSE, r |-> ocr])])

\* main.py:193-205
upload_finish ==
  /\ up.pc = "finish"
  /\ ended' = NoEnd /\ call' = NoCall
  /\ UNCHANGED <<now, task, settings>>
  /\ processing_status' =
       [processing_status EXCEPT ![up.job_id] =
          [status |-> "completed", progress |-> 100,
           message |-> "Processing completed successfully", results |-> up.results]]
  /\ resp' = [by |-> "upload_file", code |-> 200,
               detail |-> "Processing completed successfully", job_id |-> up.job_id,
               results |-> up.results, total_slides |-> up.total_slides,
               sums |-> up.sums]
  /\ up' = Idle
  /\ LeaveTmp

\* get_status taking the entry out of the table as it answers
get_status_pop(job_id) ==
  /\ ~Busy
  /\ resp' = IF job_id \notin DOMAIN processing_status
               THEN [by |-> "get_status", code |-> 404, job_id |-> job_id,
                     detail |-> "Job not found"]
               ELSE [by |-> "get_status", code |-> 200, job_id |-> job_id,
                     body |-> processing_status[job_id]]
  /\ processing_status' =
       [j \in DOMAIN processing_status \ {job_id} |-> processing_status[j]]
  /\ ended' = NoEnd /\ call' = NoCall
  /\ UNCHANGED <<now, up, task, dirs, settings>>

\* main.py:214-218
get_status(job_id) ==
  /\ ~Busy
  /\ resp' = IF job_id \notin DOMAIN processing_status
               THEN [by |-> "get_status", code |-> 404, job_id |-> job_id,
                     detail |-> "Job not found"]
               ELSE [by |-> "get_status", code |-> 200, job_id |-> job_id,
                     body |-> processing_status[job_id]]
  /\ ended' = NoEnd /\ call' = NoCall
  /\ UNCHANGED <<now, processing_status, up, task, dirs, settings>>

\* What is known of a process_file coroutine when it ends: its arguments,
\* the exception that left it (raised), the call whose exception line 288
\* caught (stage), and what it did for the slides (sums: what the backend
\* did for each, appended: the entries it appended).
Ended(t, raised, stage) ==
  [job_id |-> task[t].job_id, work_dir |-> task[t].work_dir,
   raised |-> raised, stage |-> stage,
   total_slides |-> IF "total_slides" \in DOMAIN task[t] THEN task[t].total_slides ELSE 0,
   sums |-> IF "sums" \in DOMAIN task[t] THEN task[t].sums ELSE <<>>,
   appended |-> IF "appended" \in DOMAIN task[t] THEN task[t].appended ELSE <<>>]

\* main.py:288-290, reached with the job's entry present: the coroutine ends
Fail(t, stage, e) ==
  /\ processing_status' =
       [processing_status EXCEPT ![task[t].job_id] =
          [@ EXCEPT !.status = "error", !.message = e]]
  /\ task' = [task EXCEPT ![t] = Idle]
  /\ ended' = Ended(t, "", stage)

\* main.py:220-230.  process_file has no caller in the repository; it is
\* entered for a job that has not been started: one with no entry, or one
\* whose entry is still "uploading".  work_dir holds the uploaded file, so
\* it exists.  With no entry for job_id, line 229 raises KeyError, and so
\* does line 289 in the handler: the coroutine ends with that exception.
process_file(t, work_dir, job_id, provider) ==
  /\ ~Busy
  /\ task[t].pc = "idle"
  /\ IF job_id \in DOMAIN processing_status
       THEN processing_status[job_id].status = "uploading"
       ELSE TRUE
  /\ dirs' = dirs \cup {work_dir}
  /\ resp' = NoResp /\ call' = NoCall
  /\ UNCHANGED <<now, up, settings>>
  /\ IF job_id \in DOMAIN processing_status
       THEN /\ processing_status' =
                 [processing_status EXCEPT ![job_id] =
                    [@ EXCEPT !.status = "processing", !.message = "Converting to PDF..."]]
            /\ task' = [task EXCEPT ![t] =
                 [pc |-> "convert", job_id |-> job_id, work_dir |-> work_dir,
                  provider |-> provider]]
            /\ ended' = NoEnd
       ELSE /\ UNCHANGED <<processing_status, task>>
            /\ ended' = [job_id |-> job_id, work_dir |-> work_dir,
                         raised |-> "KeyError", stage |-> "", total_slides |-> 0,
                         sums |-> <<>>, appended |-> <<>>]

\* main.py:232-238
process_convert(t, env) ==
  /\ task[t].pc = "convert"
  /\ resp' = NoResp /\ call' = NoCall
  /\ UNCHANGED <<now, up, dirs, settings>>
  /\ LET r == pptx_to_pdf(env) IN
     IF r.ok
       THEN /\ processing_status' =
                 [processing_status EXCEPT ![task[t].job_id] =
                    [@ EXCEPT !.progress = 20, !.message = "Converting PDF to images..."]]
            /\ task' = [task EXCEPT ![t].pc = "rasterize"]
            /\ ended' = NoEnd
       ELSE Fail(t, "pptx_to_pdf", r.err)

\* main.py:240-245
process_rasterize(t, env) ==
  /\ task[t].pc = "rasterize"
  /\ resp' = NoResp /\ call' = NoCall
  /\ UNCHANGED <<now, up, dirs, settings>>
  /\ LET r == pdf_to_images(env) IN
     IF r.ok
       THEN /\ task' = [task EXCEPT ![t] =
                 [pc |-> "slide", job_id |-> task[t].job_id, work_dir |-> task[t].work_dir,
                  provider |-> task[t].provider, total_slides |-> r.val, idx |-> 1,
                  sums |-> <<>>, appended |-> <<>>]]
            /\ ended' = NoEnd
            /\ UNCHANGED processing_status
       ELSE Fail(t, "pdf_to_images", r.err)

\* slide_progress dividing in integers before it multiplies
slide_progress_int_div(idx, total_slides) == 20 + (idx \div total_slides) * 60

\* main.py:248-249: int(20 + (idx / total_slides * 60)).  The float product
\* truncates to floor(60 * idx / total_slides) for every 1 <= idx <= total
\* (checked for total_slides up to 400).
slide_progress(idx, total_slides) == 20 + (60 * idx) \div total_slides

\* main.py:267-271 and 274-278
task_entry(idx, raw_text, r) ==
  [slide_num |-> idx,
   summary |-> IF r.ok THEN r.val ELSE "Error: " \o r.err,
   raw_text |-> raw_text]

\* main.py:246-281, one turn of the loop up to its sleep.  ocr is what
\* extract_text did for the slide: an error leaves the loop for the handler
\* of line 288.  If it returned, gemini says which branch of line 257 is
\* taken and r is what the backend did.
process_slide(t, ocr, gemini, r) ==
  LET job_id == task[t].job_id
      shown == [processing_status[job_id] EXCEPT
                  !.progress = slide_progress(task[t].idx, task[t].total_slides),
                  !.message = "Processing slide " \o ToString(task[t].idx) \o "/"
                                \o ToString(task[t].total_slides) \o "..."]
  IN
  /\ task[t].pc = "slide"
  /\ resp' = NoResp
  /\ UNCHANGED <<now, up, dirs, settings>>
  /\ IF ocr.ok
       THEN /\ gemini = (task[t].provider = "gemini")
            /\ r \in IF gemini
                       THEN summarize_gemini(ocr.val, settings.GEMINI_API_KEY,
                                             settings.GEMINI_MODEL)
                       ELSE summarize_openai(ocr.val, settings.OPENAI_API_KEY)
            /\ call' = [backend |-> IF gemini THEN "gemini" ELSE "openai",
                        by |-> "process_file", job_id |-> job_id,
                        slide |-> task[t].idx, text |-> ocr.val,
                        api_key |-> IF gemini THEN settings.GEMINI_API_KEY
                                    ELSE settings.OPENAI_API_KEY,
                        result |-> r]
            /\ processing_status' =
                 [processing_status EXCEPT ![job_id] =
                    [shown EXCEPT !.results =
                       Append(@, task_entry(task[t].idx, ocr.val, r))]]
            /\ task' = [task EXCEPT
                 ![t].pc = "sleep",
                 ![t].sums = Append(@, [called |-> TRUE, r |-> r]),
                 ![t].appended = Append(@, task_entry(task[t].idx, ocr.val, r))]
            /\ ended' = NoEnd
       ELSE /\ gemini = FALSE /\ r = Raise("")
            /\ call' = NoCall
            /\ processing_status' =
                 [processing_status EXCEPT ![job_id] =
                    [shown EXCEPT !.status = "error", !.message = ocr.err]]
            /\ task' = [task EXCEPT ![t] = Idle]
            /\ ended' = Ended(t, "", "extract_text")

\* main.py:281 and 246: the sleep is over, the loop goes on or ends
process_resume(t) ==
  /\ ~Busy
  /\ task[t].pc = "sleep"
  /\ resp' = NoResp /\ ended' = NoEnd /\ call' = NoCall
  /\ UNCHANGED <<now, processing_status, up, dirs, settings>>
  /\ task' = IF task[t].idx < task[t].total_slides
               THEN [task EXCEPT ![t].idx = task[t].idx + 1, ![t].pc = "slide"]
               ELSE [task EXCEPT ![t].pc = "final"]

\* main.py:283-286
process_finish(t) ==
  /\ task[t].pc = "final"
  /\ resp' = NoResp /\ call' = NoCall
  /\ UNCHANGED <<now, up, dirs, settings>>
  /\ processing_status' =
       [processing_status EXCEPT ![task[t].job_id] =
          [@ EXCEPT !.status = "completed", !.progress = 100,
                    !.message = "Processing complete!"]]
  /\ task' = [task EXCEPT ![t] = Idle]
  /\ ended' = Ended(t, "", "")

\* every outcome a summarization backend has
SummarizeOutcomes ==
  UNION {summarize_openai(t, k) : t \in Texts, k \in Keys}
    \cup UNION {summarize_gemini(t, k, "") : t \in Texts, k \in Keys}
    \cup {Raise("")}

\* the steps of the handler of an upload
UploadSteps ==
  \/ \E b \in BOOLEAN : upload_file(b)
  \/ \E b \in BOOLEAN : upload_save(b)
  \/ \E env \in ConvEnvs : upload_convert(env)
  \/ \E env \in RasterEnvs : upload_rasterize(env)
  \/ \E ocr \in extract_text, g \in BOOLEAN, r \in SummarizeOutcomes :
        upload_slide(ocr, g, r)
  \/ upload_finish

\* The program as it is wired: process_file is never entered.
Next ==
  \/ Tick
  \/ \E f \in FileNames, p \in Providers, ok \in Keys, gk \in Keys :
        upload_request(f, p, ok, gk)
  \/ UploadSteps
  \/ \E j \in JobIds : get_status(j)

Spec == Init /\ [][Next]_vars

\* The program with process_file entered as a background task, over one
\* second of the clock: every upload of that second gets the same job id.
\* Uploads here are those that pass validation; status requests, which
\* change nothing, are left to Spec.
NextBg ==
  \/ \E p \in {"openai", "gemini"} :
        upload_request(<<"d", ".", "p", "p", "t", "x">>, p, "sk", "sk")
  \/ UploadSteps
  \/ \E t \in Tasks, w \in WorkDirs, j \in JobIds, p \in {"openai", "gemini"} :
        process_file(t, w, j, p)
  \/ \E t \in Tasks, env \in ConvEnvs : process_convert(t, env)
  \/ \E t \in Tasks, env \in RasterEnvs : process_rasterize(t, env)
  \/ \E t \in Tasks, ocr \in extract_text, g \in BOOLEAN, r \in SummarizeOutcomes :
        process_slide(t, ocr, g, r)
  \/ \E t \in Tasks : process_resume(t)
  \/ \E t \in Tasks : process_finish(t)

\* process_file reads its keys from the settings (main.py:260, 264): here
\* the environment may have set them.
InitBg ==
  /\ now \in JobIds
  /\ processing_status = << >>
  /\ up = Idle
  /\ task = [t \in Tasks |-> Idle]
  /\ dirs = {}
  /\ resp = NoResp
  /\ ended = NoEnd
  /\ call = NoCall
  /\ settings \in Settings

SpecBg == InitBg /\ [][NextBg]_vars

\* ------------------------------------------------------------ properties
StartsWith(str, prefix) ==
  Len(str) >= Len(prefix) /\ SubSeq(str, 1, Len(prefix)) = prefix

\* a summary that reports an error instead of summarizing
IsErrorMarker(summary) ==
  StartsWith(summary, "[Error:") \/ StartsWith(summary, "Error:")

\* the slide index of a result entry, whichever coroutine wrote it
SlideIndex(e) == IF "slide" \in DOMAIN e THEN e.slide ELSE e.slide_num

\* upload_file has just answered / a process_file coroutine has just ended
Answered == resp.by = "upload_file"
HasEnded == ended # NoEnd

\* C1: once a request or a background task has finished, its temporary
\* directory no longer exists, on every exit path.
C1_TmpDirRemoved ==
  /\ Answered => UploadTmp \notin dirs
  /\ (HasEnded /\ ended.raised = "") => ended.work_dir \notin dirs

\* C2: a job whose conversion step failed is "error" with a non-empty
\* message (and so never "completed"), under upload_file and process_file.
C2_ConversionFailureIsError ==
  /\ (Answered /\ StartsWith(resp.detail, "Failed to convert PPTX to PDF:"))
       => /\ processing_status[resp.job_id].status = "error"
          /\ processing_status[resp.job_id].message # ""
  /\ (HasEnded /\ ended.stage = "pptx_to_pdf")
       => /\ processing_status[ended.job_id].status = "error"
          /\ processing_status[ended.job_id].message # ""

\* the list has exactly n entries and their slide indices are exactly 1..n
Listed(results, n) ==
  /\ Len(results) = n
  /\ {SlideIndex(results[i]) : i \in 1..Len(results)} = 1..n

\* C3: a document rasterized into N >= 1 images ends with exactly N result
\* entries, of slide indices 1..N, whatever fails for the slides.
C3_AllSlidesListed ==
  /\ (Answered /\ resp.code = 200)
       => Listed(processing_status[resp.job_id].results, resp.total_slides)
  /\ (HasEnded /\ ended.total_slides >= 1)
       => Listed(processing_status[ended.job_id].results, ended.total_slides)

\* summarization was called for each of the n slides, raised for exactly one
OneRaised(sums, n) ==
  /\ Len(sums) = n
  /\ \A i \in 1..n : sums[i].called
  /\ Cardinality({i \in 1..n : ~sums[i].r.ok}) = 1

\* C4 as stated: if summarization raises for exactly one slide k, the job is
\* "completed", slide k's summary is an error marker and every other slide
\* carries the summary the backend returned.
C4_OtherSlidesCarryBackendSummary ==
  /\ (Answered /\ resp.code = 200 /\ OneRaised(resp.sums, resp.total_slides))
       => /\ processing_status[resp.job_id].status = "completed"
          /\ \A i \in 1..resp.total_slides :
               LET e == processing_status[resp.job_id].results[i] IN
               IF resp.sums[i].r.ok THEN e.summary = resp.sums[i].r.val
                                    ELSE IsErrorMarker(e.summary)
  /\ (HasEnded /\ ended.total_slides >= 1 /\ OneRaised(ended.sums, ended.total_slides))
       => /\ processing_status[ended.job_id].status = "completed"
          /\ \A i \in 1..ended.total_slides :
               IF ended.sums[i].r.ok
                 THEN ended.appended[i].summary = ended.sums[i].r.val
                 ELSE IsErrorMarker(ended.appended[i].summary)

\* C4, amended: as above, except that upload_file stores
\* "[No summary available]" for a slide whose backend returned the empty
\* summary.
C4_OtherSlidesCarrySummaryOrPlaceholder ==
  /\ (Answered /\ resp.code = 200 /\ OneRaised(resp.sums, resp.total_slides))
       => /\ processing_status[resp.job_id].status = "completed"
          /\ \A i \in 1..resp.total_slides :
               LET e == processing_status[resp.job_id].results[i]
                   r == resp.sums[i].r
               IN /\ SlideIndex(e) = i
                  /\ IF ~r.ok THEN IsErrorMarker(e.summary)
                     ELSE IF r.val = "" THEN e.summary = "[No summary available]"
                     ELSE e.summary = r.val
  /\ (HasEnded /\ ended.total_slides >= 1 /\ OneRaised(ended.sums, ended.total_slides))
       => /\ processing_status[ended.job_id].status = "completed"
          /\ \A i \in 1..ended.total_slides :
               /\ SlideIndex(ended.appended[i]) = i
               /\ IF ended.sums[i].r.ok
                    THEN ended.appended[i].summary = ended.sums[i].r.val
                    ELSE IsErrorMarker(ended.appended[i].summary)

\* an upload of two slides: the backend raised for one and returned the
\* empty summary for the other
C4_Witness ==
  /\ Answered /\ resp.code = 200 /\ resp.total_slides = 2
  /\ OneRaised(resp.sums, 2)
  /\ \E i \in 1..2 : resp.sums[i].r.ok /\ resp.sums[i].r.val = ""

\* C5: a run in which extract_text raised for a slide goes on and ends
\* "completed", never "error".
C5_OcrFailureIsSlideLocal ==
  /\ (Answered /\ resp.code = 200 /\ \E i \in 1..Len(resp.sums) : ~resp.sums[i].called)
       => processing_status[resp.job_id].status = "completed"
  /\ (HasEnded /\ ended.stage = "extract_text")
       => processing_status[ended.job_id].status = "completed"

\* C6: the progress of a job never decreases.
C6_ProgressNeverDecreases ==
  [][\A j \in DOMAIN processing_status :
       processing_status'[j].progress >= processing_status[j].progress]_vars

\* C7: summarize_openai / summarize_gemini is never called for a slide whose
\* extracted text is empty, and the summary of such a slide is the fixed
\* placeholder.
C7_EmptyTextSkipsBackend ==
  /\ call # NoCall => call.text # ""
  /\ (Answered /\ resp.code = 200)
       => \A i \in 1..Len(resp.results) :
            resp.results[i].text = ""
              => resp.results[i].summary = "[No summary available]"
  /\ HasEnded
       => \A i \in 1..Len(ended.appended) :
            ended.appended[i].raw_text = ""
              => ended.appended[i].summary = "[No summary available]"

\* what C8 calls an upload to reject
HasSuffix(name, suffix) ==
  \E n \in 0..Len(name) : SubSeq(name, n + 1, Len(name)) = suffix
Rejectable(request) ==
  \/ ~(HasSuffix(request.filename, <<".", "p", "p", "t">>)
        \/ HasSuffix(request.filename, <<".", "p", "p", "t", "x">>))
  \/ request.provider = "openai" /\ request.openai_api_key \in {None, ""}
  \/ request.provider = "gemini" /\ request.gemini_api_key \in {None, ""}

\* C8: an upload with a wrong extension or without the key of its provider
\* is answered 400 by the step that validates it; that step leaves the job
\* table and the disk as they are and ends the handler, so that no pipeline
\* step runs for it.
C8_InvalidUploadRejected ==
  [][(up.pc = "validate" /\ Rejectable(up.request))
       => /\ resp'.by = "upload_file" /\ resp'.code = 400
          /\ processing_status' = processing_status
          /\ dirs' = dirs
          /\ call' = NoCall
          /\ up' = Idle]_vars

\* a Gemini upload without its key has just been rejected, with a job in
\* the table
C8_Witness ==
  /\ Answered /\ resp.code = 400
  /\ resp.detail = "Gemini API key is required for Gemini provider"
  /\ DOMAIN processing_status # {}

\* C9: the only status changes are uploading -> processing,
\* processing -> completed and processing -> error.
C9_StatusStateMachine ==
  [][\A j \in DOMAIN processing_status :
       \/ processing_status'[j].status = processing_status[j].status
       \/ <<processing_status[j].status, processing_status'[j].status>> \in
            { <<"uploading", "processing">>, <<"processing", "completed">>,
              <<"processing", "error">> }]_vars

\* C10: a status request is answered 404 exactly when the job has no entry,
\* otherwise with the entry as it is, and it leaves the job table unchanged.
C10_StatusAnswer ==
  [][resp'.by = "get_status"
       => /\ processing_status' = processing_status
          /\ resp'.code \in {200, 404}
          /\ resp'.code = 404 <=> resp'.job_id \notin DOMAIN processing_status
          /\ resp'.code = 200 => resp'.body = processing_status[resp'.job_id]]_vars

\* the status of a completed job has just been read
C10_Witness ==
  /\ resp.by = "get_status" /\ resp.code = 200
  /\ resp.body.status = "completed" /\ Len(resp.body.results) = 2

\* C11: an accepted upload gets an entry of its own: the job id it takes is
\* not in the job table yet, and creating its entry leaves every other
\* entry as it is, also within one second of the clock.
C11_OwnEntryPerUpload ==
  [][(up.pc = "validate" /\ ~Rejectable(up.request))
       => /\ now \notin DOMAIN processing_status
          /\ \A j \in DOMAIN processing_status :
               processing_status'[j] = processing_status[j]]_vars

\* C12: whenever upload_file calls a summarization backend, the API key it
\* passes is neither absent nor empty, whatever the provider field is.
C12_UploadPassesNonEmptyKey ==
  (call # NoCall /\ call.by = "upload_file") => call.api_key \notin {None, ""}

\* C13: a job whose status is "error" has an empty result list.
C13_ErrorHasNoResults ==
  \A j \in DOMAIN processing_status :
    processing_status[j].status = "error" => processing_status[j].results = << >>

\* list a is an initial part of list b
IsPrefix(a, b) == Len(a) <= Len(b) /\ SubSeq(b, 1, Len(a)) = a

\* C14: the result list of every job is in slide order, its i-th entry
\* having slide index i, and no step changes or removes an entry that is
\* already in the list.
C14_ResultsInSlideOrder ==
  [][\A j \in DOMAIN processing_status :
       /\ \A i \in 1..Len(processing_status[j].results) :
            SlideIndex(processing_status[j].results[i]) = i
       /\ IsPrefix(processing_status[j].results, processing_status'[j].results)]_vars

\* C15: a run whose conversion and rasterization succeeded with N >= 1
\* slides ends with status "completed" and progress 100, whatever failed for
\* the slides.
C15_CompletedAfterRasterization ==
  /\ (Answered /\ resp.job_id # 0 /\ "total_slides" \in DOMAIN resp)
       => /\ processing_status[resp.job_id].status = "completed"
          /\ processing_status[resp.job_id].progress = 100
  /\ (HasEnded /\ ended.total_slides >= 1)
       => /\ processing_status[ended.job_id].status = "completed"
          /\ processing_status[ended.job_id].progress = 100

\* C16: the progress of every job is an integer in 0..100 and is 100 only
\* for a completed job; the step of process_file that ends a successful
\* conversion sets it to 20, and the step that processes slide idx of total
\* sets it to 20 + floor(60 * idx / total), a value in 20..80.
C16_ProgressFormula ==
  [][/\ \A j \in DOMAIN processing_status' :
          /\ processing_status'[j].progress \in 0..100
          /\ processing_status'[j].progress = 100
               => processing_status'[j].status = "completed"
     /\ \A t \in Tasks :
          /\ (task[t].pc = "convert" /\ task'[t].pc = "rasterize")
               => processing_status'[task[t].job_id].progress = 20
          /\ task[t].pc = "slide"
               => LET p == processing_status'[task[t].job_id].progress IN
                  /\ p = 20 + (60 * task[t].idx) \div task[t].total_slides
                  /\ p \in 20..80]_vars

\* process_file has processed slide 1 of 2 and sleeps: the progress is 50
C16_Witness ==
  \E t \in Tasks :
    /\ task[t].pc = "sleep" /\ task[t].idx = 1 /\ task[t].total_slides = 2
    /\ processing_status[task[t].job_id].progress = 50

\* C17: terminal states are absorbing: no step changes the status,
\* progress, message or results of an entry that is "completed" or "error".
C17_TerminalAbsorbing ==
  [][\A j \in DOMAIN processing_status :
       processing_status[j].status \in {"completed", "error"}
         => processing_status'[j] = processing_status[j]]_vars

\* Every external call of a running upload_file returns or raises: the
\* handler of an upload always takes its next step.
SpecFair == Spec /\ WF_vars(UploadSteps)

\* C18: every entry created in the job table eventually has a terminal
\* status, "completed" or "error".
C18_EveryJobTerminates ==
  \A j \in JobIds :
    (j \in DOMAIN processing_status)
      ~> (j \in DOMAIN processing_status
            /\ processing_status[j].status \in {"completed", "error"})
====
